---------------------------- MODULE Spec2Model ----------------------------
(***************************************************************************)
(* The small-prime factorization engine of stalagmite-base:                *)
(*   factor/prime_cache.rs               the shared prime cache            *)
(*   factor/trial_division/trial_tree.rs the product tree and its query    *)
(*   factor/trial_division/trial_range.rs factor_trial_range, remove_power *)
(*   factor/trial_division/trial.rs      factor_trial                      *)
(*   factor/trial_div.rs                 the signed first-factor search    *)
(*                                                                         *)
(* Numbers.  TLC's integers are 32 bits wide, and the root of the real     *)
(* tree is the product of the first 3512 primes.  The model therefore      *)
(* keeps the code's formulas and shrinks the three numbers they are        *)
(* applied to:                                                             *)
(*   TREE_PRIMES   6   for the 3512 primes the tree covers                 *)
(*   TREE_BITS     3   for the 12 of 4096 = 2^12 and of 13 = 12 + 1        *)
(*   LIMB_RADIX  256   for 2^LIMB_BITS, the size from which a Natural      *)
(*                     has more than one limb                              *)
(* LIMB_BITS itself is 32 (malachite's 32-bit limbs): a leaf group then    *)
(* holds LIMB_BITS/16 = 2 primes and the level shift LIMB_BITS/32 is 1,    *)
(* as in the source.  The relations of the source are kept by the scaled   *)
(* numbers: TREE_PRIMES is a multiple of the group size, it is not a       *)
(* power of two, bit_count(TREE_PRIMES) = TREE_BITS, and the product of    *)
(* the primes of one leaf group is below LIMB_RADIX.                       *)
(***************************************************************************)
EXTENDS Integers, Sequences, FiniteSets, TLC

\* ------------------------------------------------------------------------
\* Bounds of the model
\* ------------------------------------------------------------------------

\* the largest input n handed to the engine and to the power extractor
MaxN == 800

\* the largest count a thread asks of ensure_primes_computed
MaxCount == 12

\* the number of concurrent threads
NumThreads == 2

\* the largest start index handed to factor_trial_range
MaxStart == 2

\* the largest magnitude of a signed n handed to trial_div.rs
MaxZ == 40

\* the largest magnitude of an exponent in a FactoredElem handed to mul
MaxExp == 1

\* ------------------------------------------------------------------------
\* Program constants
\* ------------------------------------------------------------------------

LIMB_BITS == 32

TREE_PRIMES == 6

TREE_BITS == 3

LIMB_RADIX == 256

\* for 2^64, the range of a u64 (the candidate of extend_cache_to, the
\* leaf products of build_first_layer); above every prime the model asks
\* for and above the product of the primes of one leaf group
WORD_RADIX == 256

\* the two numbers of the source that the properties also use unscaled:
\* the width of a u64 and the number of primes the tree covers
WORD_BITS == 64

TREE_PRIMES_FULL == 3512

SEED_PRIMES == <<2, 3, 5, 7, 11, 13, 17, 19, 23, 29>>

GROUP_SIZE == LIMB_BITS \div 16

FACTOR_TREE_LEVELS == (TREE_BITS + 1) - (LIMB_BITS \div 32)

FACTOR_TREE_ENTRIES_PER_LEVEL == (2 ^ TREE_BITS) \div (LIMB_BITS \div 16)

\* ------------------------------------------------------------------------
\* Arithmetic of the collaborators (malachite's Natural and u64)
\* ------------------------------------------------------------------------

\* x.divisible_by(d), d >= 1
divisible_by(x, d) == x % d = 0

\* x.div_exact_assign(d): the quotient (the caller guarantees exactness)
div_exact(x, d) == x \div d

\* the precondition of x.div_exact_assign(d): d divides x
exact_at(x, d) == divisible_by(x, d)

RECURSIVE gcd(_, _)
\* a.gcd(b), Euclid; gcd(a, 0) = a
gcd(a, b) == IF b = 0 THEN a ELSE gcd(b, a % b)

RECURSIVE trailing_zeros(_)
\* n.trailing_zeros() of a nonzero n: the number of low zero bits
trailing_zeros(n) == IF n % 2 = 1 THEN 0 ELSE 1 + trailing_zeros(n \div 2)

\* n.limb_count() of a nonzero n
limb_count(n) == IF n < LIMB_RADIX THEN 1 ELSE 2

RECURSIVE isqrt_from(_, _)
isqrt_from(n, r) == IF (r + 1) * (r + 1) > n THEN r ELSE isqrt_from(n, r + 1)

\* (n as f64).sqrt() as u64, exact on the numbers of the model
sqrt_floor(n) == isqrt_from(n, 0)

\* self.get(index) of a Vec held as a sequence: index is 0-based
vec_has(v, index) == index >= 0 /\ index < Len(v)

vec_at(v, index) == v[index + 1]

\* HashMap::insert(p, e) on a factor map held as a function prime -> exponent
map_insert(f, p, e) ==
  [q \in (DOMAIN f) \cup {p} |-> IF q = p THEN e ELSE f[q]]

EmptyMap == [q \in {} |-> 0]

\* the exponent of p in a factor map, 0 when p is not a key
exponent_of(f, p) == IF p \in DOMAIN f THEN f[p] ELSE 0

RECURSIVE factor_from(_, _, _)
\* the limb's complete factorization by ascending trial division; what is
\* left when d * d exceeds it is a prime
factor_from(n, d, acc) ==
  IF n = 1 THEN acc
  ELSE IF d * d > n THEN map_insert(acc, n, exponent_of(acc, n) + 1)
  ELSE IF n % d = 0
       THEN factor_from(n \div d, d, map_insert(acc, d, exponent_of(acc, d) + 1))
       ELSE factor_from(n, d + 1, acc)

\* u64::factor() of malachite: every prime of the limb with its exponent
limb_factor(n) == factor_from(n, 2, EmptyMap)

\* ------------------------------------------------------------------------
\* prime_cache.rs
\* ------------------------------------------------------------------------

RECURSIVE cache_scan(_, _, _, _)
\* the for loop of is_prime_using_cache over cache[k..]
cache_scan(n, cache, k, sqrt_n) ==
  IF k > Len(cache) THEN TRUE
  ELSE IF cache[k] > sqrt_n THEN TRUE
  ELSE IF n % cache[k] = 0 THEN FALSE
  ELSE cache_scan(n, cache, k + 1, sqrt_n)

RECURSIVE cache_scan_strict(_, _, _, _)
cache_scan_strict(n, cache, k, sqrt_n) ==
  IF k > Len(cache) THEN TRUE
  ELSE IF cache[k] >= sqrt_n THEN TRUE
  ELSE IF n % cache[k] = 0 THEN FALSE
  ELSE cache_scan_strict(n, cache, k + 1, sqrt_n)

\* mutant of is_prime_using_cache: the scan stops at prime >= sqrt_n, so a
\* divisor equal to the square root's floor is never tried
is_prime_short_scan(n, cache) ==
  IF n < 2 THEN FALSE
  ELSE IF n % 2 = 0 THEN FALSE
  ELSE cache_scan_strict(n, cache, 1, sqrt_floor(n))

is_prime_using_cache(n, cache) ==
  IF n < 2 THEN FALSE
  ELSE IF n % 2 = 0 THEN FALSE
  ELSE cache_scan(n, cache, 1, sqrt_floor(n))

RECURSIVE extend_loop_over(_, _, _)
\* mutant of extend_loop: the loop goes on while len <= target_size, so it
\* appends one prime more than asked
extend_loop_over(cache, candidate, target_size) ==
  IF Len(cache) > target_size THEN cache
  ELSE IF is_prime_using_cache(candidate, cache)
       THEN extend_loop_over(Append(cache, candidate), candidate + 2,
                             target_size)
       ELSE extend_loop_over(cache, candidate + 2, target_size)

RECURSIVE extend_loop(_, _, _)
\* the while loop of extend_cache_to
extend_loop(cache, candidate, target_size) ==
  IF Len(cache) >= target_size THEN cache
  ELSE IF is_prime_using_cache(candidate, cache)
       THEN extend_loop(Append(cache, candidate), candidate + 2, target_size)
       ELSE extend_loop(cache, candidate + 2, target_size)

\* mutant of extend_cache_to: the last prime is taken with pop() instead
\* of last(), so it leaves the cache before the scan starts
extend_cache_pop(cache, target_size) ==
  extend_loop(SubSeq(cache, 1, Len(cache) - 1), cache[Len(cache)] + 2,
              target_size)

\* mutant of extend_cache_to: the new primes are put in front of the old
\* ones, so every prime already cached moves to a higher index
extend_cache_front(cache, target_size) ==
  LET e == extend_loop(cache, cache[Len(cache)] + 2, target_size)
  IN SubSeq(e, Len(cache) + 1, Len(e)) \o cache

extend_cache_to(cache, target_size) ==
  extend_loop(cache, cache[Len(cache)] + 2, target_size)

\* mutant of enough_primes: the test is off by one (len >= count - 1)
enough_primes_short(cache, count) == Len(cache) + 1 >= count

\* the test `cache.len() >= count` of ensure_primes_computed (both of them)
enough_primes(cache, count) == Len(cache) >= count

\* ensure_primes_computed run alone, start to end: the cache it leaves
ensure_primes_computed(cache, count) ==
  IF enough_primes(cache, count) THEN cache
  ELSE extend_cache_to(cache, count)

\* ------------------------------------------------------------------------
\* trial_tree.rs: FactorTrialTree
\* ------------------------------------------------------------------------

\* FactorTrialTree::new(): LEVELS rows of ENTRIES zeros, not initialized
new_tree ==
  [tree |-> [l \in 1..FACTOR_TREE_LEVELS |->
               [e \in 1..FACTOR_TREE_ENTRIES_PER_LEVEL |-> 0]],
   initialized |-> FALSE]

\* the static TRIAL_TREE before its OnceLock is set
NoTree == [tree |-> <<>>, initialized |-> FALSE]

\* mutant of leaf_product: the product is computed in a type half as wide
leaf_product_half(cache, i) ==
  IF LIMB_BITS = 64
  THEN (vec_at(cache, i) * vec_at(cache, i + 1)
          * vec_at(cache, i + 2) * vec_at(cache, i + 3))
         % (WORD_RADIX \div 2)
  ELSE (vec_at(cache, i) * vec_at(cache, i + 1)) % (WORD_RADIX \div 2)

\* the product build_first_layer stores for the group starting at cache[i]:
\* a product of u64 values, which keeps the low bits when it overflows (a
\* build with overflow checks panics instead)
leaf_product(cache, i) ==
  IF LIMB_BITS = 64
  THEN (vec_at(cache, i) * vec_at(cache, i + 1)
          * vec_at(cache, i + 2) * vec_at(cache, i + 3)) % WORD_RADIX
  ELSE (vec_at(cache, i) * vec_at(cache, i + 1)) % WORD_RADIX

RECURSIVE first_layer_loop(_, _, _, _)
\* for i in (0..3512).step_by(step) { tree[0][j] = ...; j += 1 }
first_layer_loop(rows, cache, i, j) ==
  IF i >= TREE_PRIMES THEN rows
  ELSE first_layer_loop(
         [rows EXCEPT ![1][j + 1] = leaf_product(cache, i)],
         cache, i + (LIMB_BITS \div 16), j + 1)

build_first_layer(rows, cache) == first_layer_loop(rows, cache, 0, 0)

RECURSIVE pair_loop(_, _, _, _, _)
\* while input_idx + 1 < entries_count: multiply adjacent entries in pairs
\* (level is 0-based; returns the rows and the output index reached)
pair_loop(rows, level, input_idx, output_idx, entries_count) ==
  IF ~(input_idx + 1 < entries_count)
  THEN [rows |-> rows, output_idx |-> output_idx]
  ELSE LET result == vec_at(rows[level + 1], input_idx)
                       * vec_at(rows[level + 1], input_idx + 1)
           stored == IF level + 1 < Len(rows)
                        /\ output_idx < Len(rows[level + 2])
                     THEN [rows EXCEPT ![level + 2][output_idx + 1] = result]
                     ELSE rows
       IN pair_loop(stored, level, input_idx + 2, output_idx + 1,
                    entries_count)

\* mutant of odd_entry: the unpaired last node is not copied up
odd_entry_dropped(rows, level, output_idx, entries_count) == rows

\* "Handle odd entries": the unpaired last node is copied up
odd_entry(rows, level, output_idx, entries_count) ==
  IF entries_count % 2 = 1 /\ level + 1 < Len(rows)
  THEN LET last_idx == entries_count - 1
       IN IF last_idx < Len(rows[level + 1])
             /\ output_idx < Len(rows[level + 2])
          THEN [rows EXCEPT ![level + 2][output_idx + 1] =
                                vec_at(rows[level + 1], last_idx)]
          ELSE rows
  ELSE rows

RECURSIVE level_loop(_, _, _)
\* for level in 0..max_levels
level_loop(rows, level, entries_count) ==
  IF level >= FACTOR_TREE_LEVELS - 1 THEN rows
  ELSE LET paired == pair_loop(rows, level, 0, 0, entries_count)
           done == odd_entry(paired.rows, level, paired.output_idx,
                             entries_count)
       IN level_loop(done, level + 1, (entries_count + 1) \div 2)

build_remaining_layers(rows) ==
  level_loop(rows, 0, TREE_PRIMES \div (LIMB_BITS \div 16))

\* FactorTrialTree::initialize on a cache that holds the primes already
\* (the part after ensure_primes_computed(3512))
build_tree(t, cache) ==
  IF t.initialized THEN t
  ELSE [tree |-> build_remaining_layers(build_first_layer(t.tree, cache)),
        initialized |-> TRUE]

\* self.tree.get(level)?.get(index): is there an entry
has_entry(t, level, index) ==
  vec_has(t.tree, level) /\ vec_has(vec_at(t.tree, level), index)

get_entry(t, level, index) == vec_at(vec_at(t.tree, level), index)

bit_count(n) ==
  IF n = 0 THEN 0
  ELSE (CHOOSE b \in 1..31 : 2 ^ (b - 1) <= n /\ n < 2 ^ b)

\* mutant of tree_level: the shift is LIMB_BITS / 16, the group size
tree_level_deep(num_primes) ==
  IF bit_count(num_primes) >= (LIMB_BITS \div 16)
  THEN bit_count(num_primes) - (LIMB_BITS \div 16)
  ELSE 0

\* bit_count(num_primes).saturating_sub(LIMB_BITS / 32)
tree_level(num_primes) ==
  IF bit_count(num_primes) >= (LIMB_BITS \div 32)
  THEN bit_count(num_primes) - (LIMB_BITS \div 32)
  ELSE 0

\* mutant of entry_index: the group index is masked but not shifted
entry_index_unshifted(group_idx, level, max_level) ==
  IF level = max_level THEN 0
  ELSE group_idx % (2 ^ (max_level - level))

\* the index should_check_group reads at `level`
entry_index(group_idx, level, max_level) ==
  IF level = max_level THEN 0
  ELSE (group_idx \div (2 ^ level)) % (2 ^ (max_level - level))

RECURSIVE check_levels(_, _, _, _, _)
\* for level in (0..=max_level).rev(), from `level` down
check_levels(current_gcd, t, group_idx, max_level, level) ==
  IF level < 0 THEN TRUE
  ELSE LET entry_idx == entry_index(group_idx, level, max_level)
       IN IF has_entry(t, level, entry_idx)
          THEN LET g == gcd(current_gcd, get_entry(t, level, entry_idx))
               IN IF g = 1 THEN FALSE
                  ELSE check_levels(g, t, group_idx, max_level, level - 1)
          ELSE FALSE

should_check_group(x, t, group_idx, max_level) ==
  check_levels(x, t, group_idx, max_level, max_level)

\* ------------------------------------------------------------------------
\* trial_range.rs: remove_power_ascending
\* ------------------------------------------------------------------------

RECURSIVE descend(_, _, _, _)
\* Phase 2: from index i down to 0 (i is 0-based into squares); exact
\* tells whether every div_exact_assign met its precondition
descend(n, squares, i, exp) ==
  LET hit == vec_at(squares, i) <= n /\ divisible_by(n, vec_at(squares, i))
      n2 == IF hit THEN div_exact(n, vec_at(squares, i)) ELSE n
      exp2 == IF hit THEN exp + 2 ^ i ELSE exp
      ok == hit => exact_at(n, vec_at(squares, i))
  IN IF i = 0 THEN [n |-> n2, exp |-> exp2, exact |-> ok]
     ELSE [descend(n2, squares, i - 1, exp2) EXCEPT !.exact = ok /\ @]

RECURSIVE ascend(_, _, _, _)
\* Phase 1: binary lifting; ends by handing the index reached to Phase 2
ascend(n, squares, i, exp) ==
  IF ~divisible_by(n, vec_at(squares, i))
  THEN descend(n, squares, IF i = 0 THEN 0 ELSE i - 1, exp)
  ELSE LET n2 == div_exact(n, vec_at(squares, i))
           exp2 == exp + 2 ^ i
           next_square == vec_at(squares, i) * vec_at(squares, i)
           r == IF next_square > n2
                THEN descend(n2, squares, i, exp2)
                ELSE ascend(n2, Append(squares, next_square), i + 1, exp2)
       IN [r EXCEPT !.exact = exact_at(n, vec_at(squares, i)) /\ @]

RECURSIVE ascend_only(_, _, _, _)
ascend_only(n, squares, i, exp) ==
  IF ~divisible_by(n, vec_at(squares, i))
  THEN [n |-> n, exp |-> exp, exact |-> TRUE]
  ELSE LET n2 == div_exact(n, vec_at(squares, i))
           exp2 == exp + 2 ^ i
           next_square == vec_at(squares, i) * vec_at(squares, i)
       IN IF next_square > n2
          THEN [n |-> n2, exp |-> exp2, exact |-> TRUE]
          ELSE ascend_only(n2, Append(squares, next_square), i + 1, exp2)

\* mutant of remove_power_ascending: Phase 2 (the descent) is left out
remove_power_no_descent(n, p) == ascend_only(n, <<p>>, 0, 0)

\* returns the n it leaves and the exponent it returns
remove_power_ascending(n, p) == ascend(n, <<p>>, 0, 0)

\* ------------------------------------------------------------------------
\* The statics, run by one thread: PRIME_CACHE and TRIAL_TREE
\* ------------------------------------------------------------------------

\* the statics at process start; builds counts the runs of the initializer
World0 ==
  [cache |-> SEED_PRIMES, once |-> "uninit", tree |-> NoTree, builds |-> 0]

\* FactorTrialTree::initialize() inside the closure of get_trial_tree
initialize(w, t) ==
  IF t.initialized THEN [cache |-> w.cache, tree |-> t]
  ELSE LET c == ensure_primes_computed(w.cache, TREE_PRIMES)
       IN [cache |-> c, tree |-> build_tree(t, c)]

\* TRIAL_TREE.get_or_init(...) with no other thread running
get_trial_tree(w) ==
  IF w.once = "done" THEN w
  ELSE LET r == initialize(w, new_tree)
       IN [cache |-> r.cache, once |-> "done", tree |-> r.tree,
           builds |-> w.builds + 1]

\* ------------------------------------------------------------------------
\* trial_tree.rs: factor_trial_tree
\* ------------------------------------------------------------------------

RECURSIVE prime_loop_untested(_, _, _, _, _, _)
\* mutant of prime_loop: the test x.divisible_by(cache[prime_idx]) is left
\* out, so every prime of a group let through is reported
prime_loop_untested(x, num_primes, cache, i, j, factors) ==
  IF j >= (LIMB_BITS \div 16) THEN factors
  ELSE LET prime_idx == (LIMB_BITS \div 16) * i + j
           hit == prime_idx < Len(cache) /\ prime_idx < num_primes
       IN prime_loop_untested(x, num_primes, cache, i, j + 1,
                     IF hit THEN Append(factors, prime_idx) ELSE factors)

RECURSIVE prime_loop(_, _, _, _, _, _)
\* for j in 0..(LIMB_BITS / 16): the primes of group i
prime_loop(x, num_primes, cache, i, j, factors) ==
  IF j >= (LIMB_BITS \div 16) THEN factors
  ELSE LET prime_idx == (LIMB_BITS \div 16) * i + j
           hit == prime_idx < Len(cache) /\ prime_idx < num_primes
                  /\ divisible_by(x, vec_at(cache, prime_idx))
       IN prime_loop(x, num_primes, cache, i, j + 1,
                     IF hit THEN Append(factors, prime_idx) ELSE factors)

RECURSIVE group_loop(_, _, _, _, _, _, _)
\* for i in 0..entries_to_check; acc holds the indices found and the
\* groups should_check_group let through
group_loop(x, num_primes, w, m, i, entries_to_check, acc) ==
  IF i >= entries_to_check THEN acc
  ELSE IF should_check_group(x, w.tree, i, m)
       THEN group_loop(x, num_primes, w, m, i + 1, entries_to_check,
              [found |-> prime_loop(x, num_primes, w.cache, i, 0, acc.found),
               groups |-> Append(acc.groups, i)])
       ELSE group_loop(x, num_primes, w, m, i + 1, entries_to_check, acc)

\* mutant of factor_trial_tree: the test prime_idx < num_primes is off by
\* one (prime_idx <= num_primes)
factor_trial_tree_wide(x, num_primes, w) ==
  IF x <= 1
  THEN [w |-> w, ret |-> IF x = 1 THEN "Some" ELSE "None",
        found |-> <<>>, groups |-> <<>>, m |-> 0]
  ELSE LET w2 == get_trial_tree(w)
           m == tree_level(num_primes)
           entries_to_check ==
             (num_primes + (LIMB_BITS \div 16) - 1) \div (LIMB_BITS \div 16)
           r == group_loop(x, num_primes + 1, w2, m, 0, entries_to_check,
                           [found |-> <<>>, groups |-> <<>>])
       IN [w |-> w2, ret |-> "Some", found |-> r.found, groups |-> r.groups,
           m |-> m]

\* trial_tree.rs:126-146, what factor_trial_tree does under its two read
\* guards: the indices found, the groups checked and the level m
tree_scan(x, num_primes, w) ==
  LET m == tree_level(num_primes)
      entries_to_check ==
        (num_primes + (LIMB_BITS \div 16) - 1) \div (LIMB_BITS \div 16)
      r == group_loop(x, num_primes, w, m, 0, entries_to_check,
                      [found |-> <<>>, groups |-> <<>>])
  IN [found |-> r.found, groups |-> r.groups, m |-> m]

\* returns the statics it leaves, None or Some(found), and the groups checked
factor_trial_tree(x, num_primes, w) ==
  IF x <= 1
  THEN [w |-> w, ret |-> IF x = 1 THEN "Some" ELSE "None",
        found |-> <<>>, groups |-> <<>>, m |-> 0]
  ELSE LET w2 == get_trial_tree(w)
           r == tree_scan(x, num_primes, w2)
       IN [w |-> w2, ret |-> "Some", found |-> r.found, groups |-> r.groups,
           m |-> r.m]

\* ------------------------------------------------------------------------
\* trial.rs: factor_trial
\* ------------------------------------------------------------------------

\* mutant of strip_prime: the third division is not counted (exp += r)
strip_prime_uncounted(n, p) ==
  LET n1 == div_exact(n, p)
      ok == exact_at(n, p)
  IN IF ~divisible_by(n1, p) THEN [n |-> n1, exp |-> 1, exact |-> ok]
     ELSE LET n2 == div_exact(n1, p)
          IN IF ~divisible_by(n2, p) THEN [n |-> n2, exp |-> 2, exact |-> ok]
             ELSE [remove_power_ascending(div_exact(n2, p), p)
                     EXCEPT !.exp = 2 + @, !.exact = ok /\ @]

\* the body of `for i in found`: the three unrolled divisions, then the
\* power extractor; returns the n left and the exponent recorded, and
\* whether every div_exact_assign met its precondition (the first one is
\* not preceded by a test)
strip_prime(n, p) ==
  LET n1 == div_exact(n, p)
      ok1 == exact_at(n, p)
  IN IF ~divisible_by(n1, p) THEN [n |-> n1, exp |-> 1, exact |-> ok1]
     ELSE LET n2 == div_exact(n1, p)
              ok2 == ok1 /\ exact_at(n1, p)
          IN IF ~divisible_by(n2, p)
             THEN [n |-> n2, exp |-> 2, exact |-> ok2]
             ELSE [remove_power_ascending(div_exact(n2, p), p)
                     EXCEPT !.exp = 2 + @ + 1,
                            !.exact = ok2 /\ exact_at(n2, p) /\ @]

RECURSIVE found_loop(_, _, _, _, _)
\* for i in found { ... factors.insert(p, exp) }
found_loop(n, factors, found, k, cache) ==
  IF k > Len(found) THEN [n |-> n, factors |-> factors, exact |-> TRUE]
  ELSE LET p == vec_at(cache, found[k])
           r == strip_prime(n, p)
           rest == found_loop(r.n, map_insert(factors, p, r.exp), found,
                              k + 1, cache)
       IN [rest EXCEPT !.exact = r.exact /\ @]

\* mutant of factor_trial_entry: the exponent of 2 is recorded but n is not
\* shifted (`*n >>= exp` left out)
factor_trial_entry_unshifted(n, num_primes) ==
  IF n = 0 THEN [ret |-> "None", n |-> n, factors |-> EmptyMap]
  ELSE IF num_primes > TREE_PRIMES
  THEN [ret |-> "panic", n |-> n, factors |-> EmptyMap]
  ELSE IF limb_count(n) = 1
  THEN [ret |-> "Some", n |-> n, factors |-> limb_factor(n)]
  ELSE LET exp == trailing_zeros(n)
           f2 == IF exp # 0 THEN map_insert(EmptyMap, 2, exp) ELSE EmptyMap
       IN [ret |-> IF n = 1 THEN "Some" ELSE "tree", n |-> n, factors |-> f2]

\* trial.rs:14-42, the part of factor_trial before the tree is asked: the
\* outcome (None, panic, Some, or "tree" when the call goes on to
\* factor_trial_tree), the n left so far and the factor map so far
factor_trial_entry(n, num_primes) ==
  IF n = 0 THEN [ret |-> "None", n |-> n, factors |-> EmptyMap]
  ELSE IF num_primes > TREE_PRIMES
  THEN [ret |-> "panic", n |-> n, factors |-> EmptyMap]
  ELSE IF limb_count(n) = 1
  THEN [ret |-> "Some", n |-> n, factors |-> limb_factor(n)]
  ELSE LET exp == trailing_zeros(n)
           f2 == IF exp # 0 THEN map_insert(EmptyMap, 2, exp) ELSE EmptyMap
           n2 == IF exp # 0 THEN n \div (2 ^ exp) ELSE n
       IN [ret |-> IF n2 = 1 THEN "Some" ELSE "tree", n |-> n2,
           factors |-> f2]

\* returns the statics it leaves, the outcome (None, Some or panic), the n
\* it leaves in the caller's variable and the factor map; exact tells
\* whether every div_exact_assign of the call met its precondition
factor_trial(n, num_primes, w) ==
  LET e == factor_trial_entry(n, num_primes)
  IN IF e.ret # "tree"
     THEN [w |-> w, ret |-> e.ret, n |-> e.n, factors |-> e.factors,
           exact |-> TRUE]
     ELSE LET t == factor_trial_tree(e.n, num_primes, w)
              r == found_loop(e.n, e.factors, t.found, 1, t.w.cache)
          IN r @@ [w |-> t.w, ret |-> "Some"]

\* ------------------------------------------------------------------------
\* prime_cache.rs: get_nth_prime_using_cache, run by one thread
\* ------------------------------------------------------------------------

\* mutant of nth_count: the cache is asked for n primes only
nth_count_short(n) == n

\* the count get_nth_prime_using_cache(n) hands to ensure_primes_computed
nth_count(n) == n + 1

\* the indexed read cache[n]: a value, or the panic of an index out of range
index_read(cache, n) ==
  IF vec_has(cache, n) THEN [ret |-> "value", value |-> vec_at(cache, n)]
  ELSE [ret |-> "panic", value |-> 0]

\* returns the cache it leaves and what the indexed read gave
get_nth_prime_using_cache(cache, n) ==
  LET c == ensure_primes_computed(cache, nth_count(n))
      r == index_read(c, n)
  IN [cache |-> c, ret |-> r.ret, value |-> r.value]

\* ------------------------------------------------------------------------
\* trial_range.rs: remove_power and factor_trial_range
\* ------------------------------------------------------------------------

\* mutant of remove_power: the test `*n == 0` is left out
remove_power_unchecked(n, p) ==
  IF p > n THEN [ret |-> "Some", n |-> n, exp |-> 0]
  ELSE IF p = 2
  THEN LET exp == trailing_zeros(n)
       IN [ret |-> "Some", n |-> n \div (2 ^ exp), exp |-> exp]
  ELSE IF divisible_by(n, p)
  THEN LET r == remove_power_ascending(div_exact(n, p), p)
       IN [ret |-> "Some", n |-> r.n, exp |-> 1 + r.exp]
  ELSE [ret |-> "Some", n |-> n, exp |-> 0]

\* trial_range.rs:100-111, the path of remove_power for any p: the first,
\* checked division, then the power extractor
remove_power_general(n, p) ==
  IF divisible_by(n, p)
  THEN LET r == remove_power_ascending(div_exact(n, p), p)
       IN [ret |-> "Some", n |-> r.n, exp |-> 1 + r.exp]
  ELSE [ret |-> "Some", n |-> n, exp |-> 0]

\* mutant of remove_power: for p = 2 only the lowest bit is looked at
remove_power_low_bit(n, p) ==
  IF n = 0 THEN [ret |-> "None", n |-> n, exp |-> 0]
  ELSE IF p > n THEN [ret |-> "Some", n |-> n, exp |-> 0]
  ELSE IF p = 2
  THEN IF n % 2 = 0 THEN [ret |-> "Some", n |-> n \div 2, exp |-> 1]
       ELSE [ret |-> "Some", n |-> n, exp |-> 0]
  ELSE remove_power_general(n, p)

\* returns None or Some(exp), and the n it leaves
remove_power(n, p) ==
  IF n = 0 THEN [ret |-> "None", n |-> n, exp |-> 0]
  ELSE IF p > n THEN [ret |-> "Some", n |-> n, exp |-> 0]
  ELSE IF p = 2
  THEN LET exp == trailing_zeros(n)
       IN [ret |-> "Some", n |-> n \div (2 ^ exp), exp |-> exp]
  ELSE remove_power_general(n, p)

\* mutant of strip_checked: p is divided out once, higher powers stay
strip_checked_once(n, p) == [n |-> div_exact(n, p), exp |-> 1]

\* the body of `if n.divisible_by(&p)` in factor_trial_range: the division,
\* the two further tests, then the power extractor
strip_checked(n, p) ==
  LET n1 == div_exact(n, p)
  IN IF ~divisible_by(n1, p) THEN [n |-> n1, exp |-> 1]
     ELSE LET n2 == div_exact(n1, p)
          IN IF ~divisible_by(n2, p) THEN [n |-> n2, exp |-> 2]
             ELSE LET r == remove_power_ascending(div_exact(n2, p), p)
                  IN [n |-> r.n, exp |-> 2 + r.exp + 1]

RECURSIVE range_loop(_, _, _, _, _)
\* for i in trial_start..trial_stop, with the break on n == 1
range_loop(n, factors, i, trial_stop, cache) ==
  IF i >= trial_stop THEN [n |-> n, factors |-> factors, cache |-> cache]
  ELSE LET g == get_nth_prime_using_cache(cache, i)
           p == g.value
           hit == divisible_by(n, p)
           r == IF hit THEN strip_checked(n, p) ELSE [n |-> n, exp |-> 0]
           f == IF hit THEN map_insert(factors, p, r.exp) ELSE factors
       IN IF r.n = 1 THEN [n |-> r.n, factors |-> f, cache |-> g.cache]
          ELSE range_loop(r.n, f, i + 1, trial_stop, g.cache)

\* returns the cache it leaves, None or Some(factors), and the n it leaves
factor_trial_range(n, start, num_primes, cache) ==
  IF n = 0
  THEN [cache |-> cache, ret |-> "None", n |-> n, factors |-> EmptyMap]
  ELSE IF limb_count(n) = 1
  THEN [cache |-> cache, ret |-> "Some", n |-> n,
        factors |-> limb_factor(n)]
  ELSE LET exp == IF start = 0 THEN trailing_zeros(n) ELSE 0
           f2 == IF exp # 0 THEN map_insert(EmptyMap, 2, exp) ELSE EmptyMap
           n2 == IF exp # 0 THEN n \div (2 ^ exp) ELSE n
       IN IF n2 = 1
          THEN [cache |-> cache, ret |-> "Some", n |-> n2, factors |-> f2]
          ELSE LET trial_start == IF start > 1 THEN start ELSE 1
                   trial_stop == IF start + num_primes < TREE_PRIMES
                                 THEN start + num_primes ELSE TREE_PRIMES
                   r == range_loop(n2, f2, trial_start, trial_stop, cache)
               IN [cache |-> r.cache, ret |-> "Some", n |-> r.n,
                   factors |-> r.factors]

\* ------------------------------------------------------------------------
\* trial_div.rs: the first-factor search and the signed range entry point
\* (n is a ZZElem, a signed integer)
\* ------------------------------------------------------------------------

\* n.even() of a signed integer
even(n) == n % 2 = 0

\* mutant of loop_start: the scan always starts after the prime 2
loop_start_one(start) == 1

\* let loop_start = if start == 0 { 1 } else { start };
loop_start(start) == IF start = 0 THEN 1 ELSE start

RECURSIVE trial_div_loop(_, _, _, _)
\* for i in loop_start..stop
trial_div_loop(n, i, stop, prime_cache) ==
  IF i >= stop THEN [ret |-> "None", index |-> 0]
  ELSE IF i >= Len(prime_cache) THEN [ret |-> "None", index |-> 0]
  ELSE IF divisible_by(n, vec_at(prime_cache, i))
       THEN [ret |-> "Some", index |-> i]
       ELSE trial_div_loop(n, i + 1, stop, prime_cache)

\* factor_trial(n, start, stop) of trial_div.rs: returns the cache it
\* leaves and None or Some(index)
trial_div_factor_trial(n, start, stop, cache) ==
  IF start >= stop THEN [cache |-> cache, ret |-> "None", index |-> 0]
  ELSE IF n = 0 THEN [cache |-> cache, ret |-> "Some", index |-> start]
  ELSE IF n = 1 THEN [cache |-> cache, ret |-> "None", index |-> 0]
  ELSE LET c == ensure_primes_computed(cache, stop)
       IN IF start = 0 /\ stop > 0 /\ even(n)
          THEN [cache |-> c, ret |-> "Some", index |-> 0]
          ELSE LET r == trial_div_loop(n, loop_start(start), stop, c)
               IN [cache |-> c, ret |-> r.ret, index |-> r.index]

\* n.trailing_zeros() of a ZZElem: None for 0
zz_trailing_zeros(n) ==
  IF n = 0 THEN [ret |-> "None", exp |-> 0]
  ELSE [ret |-> "Some", exp |-> trailing_zeros(n)]

\* factor_trial_range(n, start, num_primes) of trial_div.rs: the sign goes
\* into the factor map as -1, the powers of two are taken out, and the
\* trial division proper is commented out in the source; returns the pair
\* (factors, n)
trial_div_factor_trial_range(n, start, num_primes) ==
  LET f0 == IF n < 0 THEN map_insert(EmptyMap, -1, 1) ELSE EmptyMap
      n1 == IF n < 0 THEN -n ELSE n
      tz == zz_trailing_zeros(n1)
      strip == start = 0 /\ tz.ret = "Some" /\ tz.exp # 0
  IN [factors |-> IF strip THEN map_insert(f0, 2, tz.exp) ELSE f0,
      n |-> IF strip THEN n1 \div (2 ^ tz.exp) ELSE n1]

\* ------------------------------------------------------------------------
\* factor/mod.rs and factored.rs: the product of two FactoredElem
\* (a HashMap held as a function key -> exponent; the exponents of the
\* model stay far from the ends of E, so += never overflows)
\* ------------------------------------------------------------------------

\* entry.remove_entry(): the map without the key
map_remove(f, p) == [q \in (DOMAIN f) \ {p} |-> f[q]]

\* the body of `for (fac, exp) in other_factors`: match factors.entry(fac)
merge_entry(factors, fac, exp) ==
  IF fac \in DOMAIN factors
  THEN LET sum == factors[fac] + exp
       IN IF sum = 0 THEN map_remove(factors, fac)
          ELSE map_insert(factors, fac, sum)
  ELSE map_insert(factors, fac, exp)

RECURSIVE merge_loop(_, _)
\* for (fac, exp) in other_factors, in the order the HashMap yields them
\* (every key is visited once, so the order does not show in the result)
merge_loop(factors, other_factors) ==
  IF DOMAIN other_factors = {} THEN factors
  ELSE LET fac == CHOOSE q \in DOMAIN other_factors : TRUE
       IN merge_loop(merge_entry(factors, fac, other_factors[fac]),
                     map_remove(other_factors, fac))

\* impl Mul for FactoredElem: the larger map takes the entries of the other
mul(self, rhs) ==
  IF Cardinality(DOMAIN self) < Cardinality(DOMAIN rhs)
  THEN merge_loop(rhs, self)
  ELSE merge_loop(self, rhs)

\* ------------------------------------------------------------------------
\* State
\* ------------------------------------------------------------------------

VARIABLES
  cache,         \* PRIME_CACHE: the Vec<u64> behind the RwLock
  cacheReaders,  \* the threads holding a read guard of PRIME_CACHE
  cacheWriter,   \* the threads holding its write guard (at most one)
  treeReaders,   \* the threads holding a read guard of TRIAL_TREE
  once,          \* the OnceLock of TRIAL_TREE: "uninit", "running", "done"
  tree,          \* the FactorTrialTree stored in TRIAL_TREE
  builds,        \* how many times the initializer of TRIAL_TREE has run
  pc,            \* per thread: the statement it is at
  loc,           \* per thread: its arguments and local variables
  inp,           \* the call under test: the operation and its arguments
  out            \* what the call under test returned and left behind

statics == <<cache, once, tree, builds>>

locks == <<cacheReaders, cacheWriter, treeReaders>>

threads == <<pc, loc>>

vars == <<cache, cacheReaders, cacheWriter, treeReaders, once, tree, builds,
          pc, loc, inp, out>>

Threads == 1..NumThreads

\* the statics as one record, for the operators above
World == [cache |-> cache, once |-> once, tree |-> tree, builds |-> builds]

SetWorld(w) ==
  /\ cache' = w.cache
  /\ once' = w.once
  /\ tree' = w.tree
  /\ builds' = w.builds

InitStatics ==
  /\ cache = World0.cache
  /\ once = World0.once
  /\ tree = World0.tree
  /\ builds = World0.builds
  /\ cacheReaders = {}
  /\ cacheWriter = {}
  /\ treeReaders = {}

Idle == [op |-> "none"]

InitThreads ==
  /\ pc = [t \in Threads |-> "idle"]
  /\ loc = [t \in Threads |-> Idle]

\* ------------------------------------------------------------------------
\* Spec: one call of one operation, run by a single thread from the
\* statics of process start
\* ------------------------------------------------------------------------

SeedSet == {SEED_PRIMES[i] : i \in 1..Len(SEED_PRIMES)}

FactorTrialCalls ==
  {[op |-> "factor_trial", n |-> n, num_primes |-> k] :
      n \in 0..MaxN, k \in 0..(TREE_PRIMES + 1)}

FactorTrialTreeCalls ==
  {[op |-> "factor_trial_tree", n |-> n, num_primes |-> k] :
      n \in 0..MaxN, k \in 0..(TREE_PRIMES + 1)}

RemovePowerAscendingCalls ==
  {[op |-> "remove_power_ascending", n |-> n, p |-> p] :
      n \in 1..MaxN, p \in SeedSet}

RemovePowerCalls ==
  {[op |-> "remove_power", n |-> n, p |-> p] :
      n \in 0..MaxN, p \in SeedSet}

FactorTrialRangeCalls ==
  {[op |-> "factor_trial_range", n |-> n, start |-> s, num_primes |-> k] :
      n \in 0..MaxN, s \in 0..MaxStart, k \in 0..(TREE_PRIMES + 1)}

IsPrimeUsingCacheCalls ==
  {[op |-> "is_prime_using_cache", n |-> n, len |-> l] :
      n \in 0..MaxN, l \in 0..Len(SEED_PRIMES)}

TrialDivFactorTrialCalls ==
  {[op |-> "trial_div_factor_trial", n |-> n, start |-> s, stop |-> e] :
      n \in (-MaxZ)..MaxZ, s \in 0..MaxCount, e \in 0..MaxCount}

TrialDivFactorTrialRangeCalls ==
  {[op |-> "trial_div_factor_trial_range", n |-> n, start |-> s,
    num_primes |-> k] :
      n \in (-MaxZ)..MaxZ, s \in 0..MaxStart, k \in {0, Len(SEED_PRIMES)}}

\* the keys of the maps handed to mul
MulKeys == {SEED_PRIMES[i] : i \in 1..3}

\* the FactoredElem values: any keys, any exponents of E = i32, 0 included
\* (From<[(T, E); N]> and the public field take what the caller gives)
FactoredElems ==
  UNION {[K -> (-MaxExp)..MaxExp] : K \in SUBSET MulKeys}

MulCalls ==
  {[op |-> "mul", a |-> a, b |-> b] : a \in FactoredElems,
                                      b \in FactoredElems}

Pending == [status |-> "pending"]

Init ==
  /\ InitStatics
  /\ InitThreads
  /\ \/ inp \in FactorTrialCalls
     \/ inp \in FactorTrialTreeCalls
     \/ inp \in RemovePowerAscendingCalls
     \/ inp \in RemovePowerCalls
     \/ inp \in FactorTrialRangeCalls
     \/ inp \in IsPrimeUsingCacheCalls
     \/ inp \in TrialDivFactorTrialCalls
     \/ inp \in TrialDivFactorTrialRangeCalls
     \/ inp \in MulCalls
  /\ out = Pending

CallFactorTrial ==
  /\ inp.op = "factor_trial"
  /\ out = Pending
  /\ LET r == factor_trial(inp.n, inp.num_primes, World)
     IN /\ out' = [status |-> "done", ret |-> r.ret, n |-> r.n,
                   factors |-> r.factors, exact |-> r.exact]
        /\ SetWorld(r.w)
  /\ UNCHANGED <<locks, threads, inp>>

CallFactorTrialTree ==
  /\ inp.op = "factor_trial_tree"
  /\ out = Pending
  /\ LET r == factor_trial_tree(inp.n, inp.num_primes, World)
     IN /\ out' = [status |-> "done", ret |-> r.ret, found |-> r.found,
                   groups |-> r.groups, m |-> r.m]
        /\ SetWorld(r.w)
  /\ UNCHANGED <<locks, threads, inp>>

CallRemovePowerAscending ==
  /\ inp.op = "remove_power_ascending"
  /\ out = Pending
  /\ LET r == remove_power_ascending(inp.n, inp.p)
     IN out' = [status |-> "done", n |-> r.n, exp |-> r.exp,
                exact |-> r.exact]
  /\ UNCHANGED <<statics, locks, threads, inp>>

CallRemovePower ==
  /\ inp.op = "remove_power"
  /\ out = Pending
  /\ LET r == remove_power(inp.n, inp.p)
     IN out' = [status |-> "done", ret |-> r.ret, n |-> r.n, exp |-> r.exp]
  /\ UNCHANGED <<statics, locks, threads, inp>>

CallFactorTrialRange ==
  /\ inp.op = "factor_trial_range"
  /\ out = Pending
  /\ LET r == factor_trial_range(inp.n, inp.start, inp.num_primes, cache)
     IN /\ out' = [status |-> "done", ret |-> r.ret, n |-> r.n,
                   factors |-> r.factors]
        /\ cache' = r.cache
  /\ UNCHANGED <<once, tree, builds, locks, threads, inp>>

\* is_prime_using_cache(n, &cache[..len]) on a prefix of the seed
CallIsPrimeUsingCache ==
  /\ inp.op = "is_prime_using_cache"
  /\ out = Pending
  /\ out' = [status |-> "done",
             ret |-> is_prime_using_cache(inp.n,
                                          SubSeq(SEED_PRIMES, 1, inp.len))]
  /\ UNCHANGED <<statics, locks, threads, inp>>

CallTrialDivFactorTrial ==
  /\ inp.op = "trial_div_factor_trial"
  /\ out = Pending
  /\ LET r == trial_div_factor_trial(inp.n, inp.start, inp.stop, cache)
     IN /\ out' = [status |-> "done", ret |-> r.ret, index |-> r.index]
        /\ cache' = r.cache
  /\ UNCHANGED <<once, tree, builds, locks, threads, inp>>

CallTrialDivFactorTrialRange ==
  /\ inp.op = "trial_div_factor_trial_range"
  /\ out = Pending
  /\ LET r == trial_div_factor_trial_range(inp.n, inp.start, inp.num_primes)
     IN out' = [status |-> "done", n |-> r.n, factors |-> r.factors]
  /\ UNCHANGED <<statics, locks, threads, inp>>

CallMul ==
  /\ inp.op = "mul"
  /\ out = Pending
  /\ out' = [status |-> "done", factors |-> mul(inp.a, inp.b)]
  /\ UNCHANGED <<statics, locks, threads, inp>>

Next ==
  \/ CallFactorTrial
  \/ CallFactorTrialTree
  \/ CallRemovePowerAscending
  \/ CallRemovePower
  \/ CallFactorTrialRange
  \/ CallIsPrimeUsingCache
  \/ CallTrialDivFactorTrial
  \/ CallTrialDivFactorTrialRange
  \/ CallMul

Spec == Init /\ [][Next]_vars

\* ------------------------------------------------------------------------
\* SpecExtend: one call extend_cache_to(&mut cache, target_size) on a
\* vector that is a non-empty prefix of the primes, one step per turn of
\* its while loop.  out holds the local variable candidate.
\* SpecExtendFair adds that the call keeps running while it has a step.
\* ------------------------------------------------------------------------

ExtendCalls ==
  {[op |-> "extend_cache_to", len |-> l, target_size |-> k] :
      l \in 1..Len(SEED_PRIMES), k \in 0..MaxCount}

InitExtend ==
  /\ inp \in ExtendCalls
  /\ cache = SubSeq(SEED_PRIMES, 1, inp.len)
  /\ once = World0.once
  /\ tree = World0.tree
  /\ builds = World0.builds
  /\ cacheReaders = {}
  /\ cacheWriter = {}
  /\ treeReaders = {}
  /\ InitThreads
  /\ out = Pending

\* prime_cache.rs:34  let mut candidate = cache.last().unwrap() + 2;
ExtendEnter ==
  /\ out = Pending
  /\ out' = [status |-> "running", candidate |-> cache[Len(cache)] + 2]
  /\ UNCHANGED <<statics, locks, threads, inp>>

\* prime_cache.rs:36  the test of the while loop fails: the call returns
ExtendExit ==
  /\ out.status = "running"
  /\ ~(Len(cache) < inp.target_size)
  /\ out' = [status |-> "done", candidate |-> out.candidate]
  /\ UNCHANGED <<statics, locks, threads, inp>>

\* prime_cache.rs:36-41  one turn of the loop, candidate + 2 in range
ExtendTurn ==
  /\ out.status = "running"
  /\ Len(cache) < inp.target_size
  /\ out.candidate + 2 < WORD_RADIX
  /\ cache' = IF is_prime_using_cache(out.candidate, cache)
              THEN Append(cache, out.candidate) ELSE cache
  /\ out' = [out EXCEPT !.candidate = @ + 2]
  /\ UNCHANGED <<once, tree, builds, locks, threads, inp>>

\* prime_cache.rs:40  candidate += 2 past the end of u64: the addition
\* wraps in a build without overflow checks
ExtendTurnWrap ==
  /\ out.status = "running"
  /\ Len(cache) < inp.target_size
  /\ out.candidate + 2 >= WORD_RADIX
  /\ cache' = IF is_prime_using_cache(out.candidate, cache)
              THEN Append(cache, out.candidate) ELSE cache
  /\ out' = [out EXCEPT !.candidate = (@ + 2) % WORD_RADIX]
  /\ UNCHANGED <<once, tree, builds, locks, threads, inp>>

\* prime_cache.rs:40  the same addition in a build with overflow checks:
\* the thread panics
ExtendTurnPanic ==
  /\ out.status = "running"
  /\ Len(cache) < inp.target_size
  /\ out.candidate + 2 >= WORD_RADIX
  /\ cache' = IF is_prime_using_cache(out.candidate, cache)
              THEN Append(cache, out.candidate) ELSE cache
  /\ out' = [status |-> "panic", candidate |-> out.candidate]
  /\ UNCHANGED <<once, tree, builds, locks, threads, inp>>

NextExtend ==
  \/ ExtendEnter
  \/ ExtendExit
  \/ ExtendTurn
  \/ ExtendTurnWrap
  \/ ExtendTurnPanic

SpecExtend == InitExtend /\ [][NextExtend]_vars

SpecExtendFair == SpecExtend /\ WF_vars(NextExtend)

\* ------------------------------------------------------------------------
\* SpecConc: NumThreads threads calling ensure_primes_computed and
\* get_trial_tree, one step per lock operation.  A guard is taken in one
\* step and used and dropped in a later one, so every interleaving of the
\* critical sections is a behaviour.
\* ------------------------------------------------------------------------

\* the counts the threads ask for: below, at and above the seed's length
Counts == (Len(SEED_PRIMES) - 1)..MaxCount

\* mutant of can_read: the read guard is exclusive, as a Mutex would be
can_read_unshared == cacheWriter = {} /\ cacheReaders = {}

\* RwLock::read() can be granted: no thread holds the write guard
can_read == cacheWriter = {}

\* RwLock::write() can be granted: no thread holds any guard
can_write == cacheWriter = {} /\ cacheReaders = {}

\* mutant of once_vacant: a caller that finds the initializer running
\* runs it as well instead of waiting for it
once_unset(state) == state # "done"

\* OnceLock::get_or_init runs its closure: the cell is empty and no
\* other thread is running the closure
once_vacant(state) == state = "uninit"

InitConc ==
  /\ InitStatics
  /\ InitThreads
  /\ inp = [op |-> "threads"]
  /\ out = [status |-> "none"]

Goto(t, label) == pc' = [pc EXCEPT ![t] = label]

\* a thread calls ensure_primes_computed(count)
CallEnsure(t) ==
  /\ pc[t] = "idle"
  /\ \E count \in Counts :
       loc' = [loc EXCEPT ![t] = [op |-> "ensure", count |-> count,
                                   from |-> "api", via |-> "none"]]
  /\ Goto(t, "e_read")
  /\ UNCHANGED <<statics, locks, inp, out>>

\* prime_cache.rs:16  let cache = get_prime_cache().read().unwrap();
EnsureRead(t) ==
  /\ pc[t] = "e_read"
  /\ can_read
  /\ cacheReaders' = cacheReaders \cup {t}
  /\ Goto(t, "e_check")
  /\ UNCHANGED <<statics, cacheWriter, treeReaders, loc, inp, out>>

\* where ensure_primes_computed returns to
AfterEnsure(t) ==
  IF loc[t].from = "api" THEN "e_done"
  ELSE IF loc[t].from = "nth" THEN "n_read"
  ELSE "i_first"

\* prime_cache.rs:17-20  the first test; the read guard is dropped
EnsureCheck(t) ==
  /\ pc[t] = "e_check"
  /\ cacheReaders' = cacheReaders \ {t}
  /\ IF enough_primes(cache, loc[t].count)
     THEN /\ Goto(t, AfterEnsure(t))
          /\ loc' = [loc EXCEPT ![t].via = "read"]
     ELSE /\ Goto(t, "e_write")
          /\ UNCHANGED loc
  /\ UNCHANGED <<statics, cacheWriter, treeReaders, inp, out>>

\* prime_cache.rs:22  let mut cache = get_prime_cache().write().unwrap();
EnsureWrite(t) ==
  /\ pc[t] = "e_write"
  /\ can_write
  /\ cacheWriter' = {t}
  /\ Goto(t, "e_recheck")
  /\ UNCHANGED <<statics, cacheReaders, treeReaders, loc, inp, out>>

\* prime_cache.rs:25-31  the second test and extend_cache_to; the write
\* guard is dropped on return
EnsureExtend(t) ==
  /\ pc[t] = "e_recheck"
  /\ cacheWriter' = {}
  /\ IF enough_primes(cache, loc[t].count)
     THEN /\ loc' = [loc EXCEPT ![t].via = "recheck"]
          /\ UNCHANGED cache
     ELSE /\ loc' = [loc EXCEPT ![t].via = "extend"]
          /\ cache' = extend_cache_to(cache, loc[t].count)
  /\ Goto(t, AfterEnsure(t))
  /\ UNCHANGED <<cacheReaders, treeReaders, once, tree, builds, inp, out>>

\* the caller of ensure_primes_computed goes on
EnsureReturn(t) ==
  /\ pc[t] = "e_done"
  /\ Goto(t, "idle")
  /\ loc' = [loc EXCEPT ![t] = Idle]
  /\ UNCHANGED <<statics, locks, inp, out>>

\* a thread calls get_trial_tree()
CallGetTrialTree(t) ==
  /\ pc[t] = "idle"
  /\ loc' = [loc EXCEPT ![t] = [op |-> "get_trial_tree"]]
  /\ Goto(t, "g_once")
  /\ UNCHANGED <<statics, locks, inp, out>>

\* trial_tree.rs:111  TRIAL_TREE.get_or_init: the cell is set already
OnceGet(t) ==
  /\ pc[t] = "g_once"
  /\ once = "done"
  /\ loc' = [loc EXCEPT ![t] = [op |-> "get_trial_tree", seen |-> tree]]
  /\ Goto(t, "g_done")
  /\ UNCHANGED <<statics, locks, inp, out>>

\* trial_tree.rs:111-113  get_or_init starts the closure:
\* FactorTrialTree::new(), then initialize() up to its call of
\* ensure_primes_computed(3512).  A caller that finds the closure running
\* has no step until the cell is set.
OnceStart(t) ==
  /\ pc[t] = "g_once"
  /\ once_vacant(once)
  /\ once' = "running"
  /\ builds' = builds + 1
  /\ loc' = [loc EXCEPT ![t] = [op |-> "get_trial_tree", t |-> new_tree,
                                 count |-> TREE_PRIMES, from |-> "init",
                                 via |-> "none"]]
  /\ Goto(t, "e_read")
  /\ UNCHANGED <<cache, tree, locks, inp, out>>

\* trial_tree.rs:48  build_first_layer takes the read guard
FirstLayerRead(t) ==
  /\ pc[t] = "i_first"
  /\ can_read
  /\ cacheReaders' = cacheReaders \cup {t}
  /\ Goto(t, "i_layer")
  /\ UNCHANGED <<statics, cacheWriter, treeReaders, loc, inp, out>>

\* trial_tree.rs:50-59  the leaves; the read guard is dropped at the end
FirstLayer(t) ==
  /\ pc[t] = "i_layer"
  /\ cacheReaders' = cacheReaders \ {t}
  /\ loc' = [loc EXCEPT ![t].t.tree = build_first_layer(@, cache)]
  /\ Goto(t, "i_rest")
  /\ UNCHANGED <<statics, cacheWriter, treeReaders, inp, out>>

\* trial_tree.rs:41-42, 114  build_remaining_layers, initialized = true,
\* and the closure's value is stored in the OnceLock
OnceSet(t) ==
  /\ pc[t] = "i_rest"
  /\ tree' = [tree |-> build_remaining_layers(loc[t].t.tree),
              initialized |-> TRUE]
  /\ once' = "done"
  /\ loc' = [loc EXCEPT ![t] = [op |-> "get_trial_tree", seen |-> tree']]
  /\ Goto(t, "g_done")
  /\ UNCHANGED <<cache, builds, locks, inp, out>>

\* the caller of get_trial_tree goes on with the reference it got
GetTrialTreeReturn(t) ==
  /\ pc[t] = "g_done"
  /\ Goto(t, "idle")
  /\ loc' = [loc EXCEPT ![t] = Idle]
  /\ UNCHANGED <<statics, locks, inp, out>>

NextConc ==
  \E t \in Threads :
    \/ CallEnsure(t)
    \/ EnsureRead(t)
    \/ EnsureCheck(t)
    \/ EnsureWrite(t)
    \/ EnsureExtend(t)
    \/ EnsureReturn(t)
    \/ CallGetTrialTree(t)
    \/ OnceGet(t)
    \/ OnceStart(t)
    \/ FirstLayerRead(t)
    \/ FirstLayer(t)
    \/ OnceSet(t)
    \/ GetTrialTreeReturn(t)

SpecConc == InitConc /\ [][NextConc]_vars

\* ------------------------------------------------------------------------
\* SpecGrow: the setting of test_cache_double_check_locking.  Every thread
\* has a count of its own, fixed at the start, and calls
\* ensure_primes_computed with it, once or again and again.
\* ------------------------------------------------------------------------

GrowCalls ==
  {[op |-> "grow", counts |-> c] : c \in [Threads -> Counts]}

InitGrow ==
  /\ InitStatics
  /\ InitThreads
  /\ inp \in GrowCalls
  /\ out = [status |-> "none"]

\* thread t calls ensure_primes_computed(counts[t])
CallEnsureCount(t) ==
  /\ pc[t] = "idle"
  /\ loc' = [loc EXCEPT ![t] = [op |-> "ensure", count |-> inp.counts[t],
                                 from |-> "api", via |-> "none"]]
  /\ Goto(t, "e_read")
  /\ UNCHANGED <<statics, locks, inp, out>>

NextGrow ==
  \E t \in Threads :
    \/ CallEnsureCount(t)
    \/ EnsureRead(t)
    \/ EnsureCheck(t)
    \/ EnsureWrite(t)
    \/ EnsureExtend(t)
    \/ EnsureReturn(t)

SpecGrow == InitGrow /\ [][NextGrow]_vars

\* ------------------------------------------------------------------------
\* SpecNth: NumThreads threads calling get_nth_prime_using_cache, whose
\* call of ensure_primes_computed takes the steps above; the guard of the
\* indexed read is taken after that call has returned and dropped its own
\* ------------------------------------------------------------------------

\* the indices asked for: the last two of the seed and the ones past it
Indices == (Len(SEED_PRIMES) - 2)..(MaxCount - 1)

\* prime_cache.rs:62-63  a thread calls get_nth_prime_using_cache(n), which
\* calls ensure_primes_computed(n + 1)
CallGetNth(t) ==
  /\ pc[t] = "idle"
  /\ \E n \in Indices :
       loc' = [loc EXCEPT ![t] = [op |-> "get_nth_prime_using_cache",
                                   n |-> n, count |-> nth_count(n),
                                   from |-> "nth", via |-> "none"]]
  /\ Goto(t, "e_read")
  /\ UNCHANGED <<statics, locks, inp, out>>

\* prime_cache.rs:64  let cache = get_prime_cache().read().unwrap();
NthRead(t) ==
  /\ pc[t] = "n_read"
  /\ can_read
  /\ cacheReaders' = cacheReaders \cup {t}
  /\ Goto(t, "n_index")
  /\ UNCHANGED <<statics, cacheWriter, treeReaders, loc, inp, out>>

\* prime_cache.rs:65-66  cache[n]; the read guard is dropped on return, or
\* by the unwinding of the panic
NthIndex(t) ==
  /\ pc[t] = "n_index"
  /\ cacheReaders' = cacheReaders \ {t}
  /\ LET r == index_read(cache, loc[t].n)
     IN loc' = [loc EXCEPT ![t] = [op |-> "get_nth_prime_using_cache",
                                    n |-> loc[t].n, via |-> loc[t].via,
                                    ret |-> r.ret, value |-> r.value]]
  /\ Goto(t, "n_done")
  /\ UNCHANGED <<statics, cacheWriter, treeReaders, inp, out>>

\* the caller of get_nth_prime_using_cache goes on with the prime
NthReturn(t) ==
  /\ pc[t] = "n_done"
  /\ Goto(t, "idle")
  /\ loc' = [loc EXCEPT ![t] = Idle]
  /\ UNCHANGED <<statics, locks, inp, out>>

NextNth ==
  \E t \in Threads :
    \/ CallGetNth(t)
    \/ EnsureRead(t)
    \/ EnsureCheck(t)
    \/ EnsureWrite(t)
    \/ EnsureExtend(t)
    \/ NthRead(t)
    \/ NthIndex(t)
    \/ NthReturn(t)

SpecNth == InitConc /\ [][NextNth]_vars

\* ------------------------------------------------------------------------
\* SpecEngine: NumThreads threads calling factor_trial with the same
\* arguments (n, num_primes), next to threads that grow the cache with
\* ensure_primes_computed.  The first caller to reach get_trial_tree builds
\* the tree, with the steps of SpecConc.  out[t] holds the n and the factor
\* map of thread t's call in progress, then what the call returned.
\* SpecEngineFair adds that a thread with a step to take takes one.
\* ------------------------------------------------------------------------

\* the values of n: 0, a one-limb n, and many-limb ones: a power of two,
\* 2 * 3^5 and 2 * 5 * 7 * 11
EngineN == {0, 12, 2 * LIMB_RADIX, 2 * 243, 2 * 5 * 7 * 11}

\* the bounds: half the tree, all of it, and one more than it covers
EngineBounds == {TREE_PRIMES \div 2, TREE_PRIMES, TREE_PRIMES + 1}

EngineCalls ==
  {[op |-> "engine", n |-> n, num_primes |-> k] :
      n \in EngineN, k \in EngineBounds}

NoCall == [status |-> "none"]

InitEngine ==
  /\ InitStatics
  /\ InitThreads
  /\ inp \in EngineCalls
  /\ out = [t \in Threads |-> NoCall]

\* trial.rs:13-45  a thread calls factor_trial(n, num_primes): the tests,
\* the one-limb branch and the powers of two; then either the return or the
\* call of factor_trial_tree, which starts with get_trial_tree()
FtCall(t) ==
  /\ pc[t] = "idle"
  /\ LET e == factor_trial_entry(inp.n, inp.num_primes)
     IN IF e.ret = "tree"
        THEN /\ out' = [out EXCEPT ![t] = [status |-> "running", n |-> e.n,
                                           factors |-> e.factors,
                                           found |-> <<>>]]
             /\ loc' = [loc EXCEPT ![t] = [op |-> "get_trial_tree"]]
             /\ Goto(t, "g_once")
        ELSE /\ out' = [out EXCEPT ![t] = [status |-> "done", ret |-> e.ret,
                                           n |-> e.n, factors |-> e.factors,
                                           exact |-> TRUE]]
             /\ loc' = [loc EXCEPT ![t] = [op |-> "factor_trial"]]
             /\ Goto(t, "f_done")
  /\ UNCHANGED <<statics, locks, inp>>

\* trial_tree.rs:123  get_trial_tree().read(): no thread ever takes the
\* write guard of TRIAL_TREE, so the read guard is always granted
TreeRead(t) ==
  /\ pc[t] = "g_done"
  /\ treeReaders' = treeReaders \cup {t}
  /\ Goto(t, "t_cache")
  /\ UNCHANGED <<statics, cacheReaders, cacheWriter, loc, inp, out>>

\* trial_tree.rs:124  get_prime_cache().read(), with the tree guard held
TreeCacheRead(t) ==
  /\ pc[t] = "t_cache"
  /\ can_read
  /\ cacheReaders' = cacheReaders \cup {t}
  /\ Goto(t, "t_scan")
  /\ UNCHANGED <<statics, cacheWriter, treeReaders, loc, inp, out>>

\* trial_tree.rs:126-147  the scan of the groups; both guards are dropped
\* on return
TreeScan(t) ==
  /\ pc[t] = "t_scan"
  /\ out' = [out EXCEPT ![t].found =
                tree_scan(out[t].n, inp.num_primes, World).found]
  /\ cacheReaders' = cacheReaders \ {t}
  /\ treeReaders' = treeReaders \ {t}
  /\ loc' = [loc EXCEPT ![t] = [op |-> "factor_trial"]]
  /\ Goto(t, "f_cache")
  /\ UNCHANGED <<statics, cacheWriter, inp>>

\* trial.rs:48  let cache = get_prime_cache().read().unwrap();
FtCacheRead(t) ==
  /\ pc[t] = "f_cache"
  /\ can_read
  /\ cacheReaders' = cacheReaders \cup {t}
  /\ Goto(t, "f_resolve")
  /\ UNCHANGED <<statics, cacheWriter, treeReaders, loc, inp, out>>

\* trial.rs:52-75  the found primes are divided out; the guard is dropped
\* on return
FtResolve(t) ==
  /\ pc[t] = "f_resolve"
  /\ LET r == found_loop(out[t].n, out[t].factors, out[t].found, 1, cache)
     IN out' = [out EXCEPT ![t] = [status |-> "done", ret |-> "Some",
                                   n |-> r.n, factors |-> r.factors,
                                   exact |-> r.exact]]
  /\ cacheReaders' = cacheReaders \ {t}
  /\ Goto(t, "f_done")
  /\ UNCHANGED <<statics, cacheWriter, treeReaders, loc, inp>>

\* the caller of factor_trial goes on with what it got
FtReturn(t) ==
  /\ pc[t] = "f_done"
  /\ out' = [out EXCEPT ![t] = NoCall]
  /\ loc' = [loc EXCEPT ![t] = Idle]
  /\ Goto(t, "idle")
  /\ UNCHANGED <<statics, locks, inp>>

\* the steps of thread t inside a call
EngineStep(t) ==
  \/ OnceGet(t)
  \/ OnceStart(t)
  \/ EnsureRead(t)
  \/ EnsureCheck(t)
  \/ EnsureWrite(t)
  \/ EnsureExtend(t)
  \/ EnsureReturn(t)
  \/ FirstLayerRead(t)
  \/ FirstLayer(t)
  \/ OnceSet(t)
  \/ TreeRead(t)
  \/ TreeCacheRead(t)
  \/ TreeScan(t)
  \/ FtCacheRead(t)
  \/ FtResolve(t)
  \/ FtReturn(t)

NextEngine ==
  \E t \in Threads :
    \/ FtCall(t)
    \/ CallEnsure(t)
    \/ EngineStep(t)

SpecEngine == InitEngine /\ [][NextEngine]_vars

\* the calls of the fair runs, one for each way through factor_trial: the
\* one-limb return, and the tree with all of its primes or half of them in
\* the bound.  The locks a call takes depend on n through this way alone.
FairCalls ==
  {[op |-> "engine", n |-> 12, num_primes |-> TREE_PRIMES],
   [op |-> "engine", n |-> 2 * 5 * 7 * 11, num_primes |-> TREE_PRIMES],
   [op |-> "engine", n |-> 2 * 243, num_primes |-> TREE_PRIMES \div 2]}

InitFair ==
  /\ InitStatics
  /\ InitThreads
  /\ inp \in FairCalls
  /\ out = [t \in Threads |-> NoCall]

\* the scheduler is fair to every thread: a thread whose next step stays
\* possible takes it
SpecEngineFair ==
  /\ InitFair
  /\ [][NextEngine]_vars
  /\ \A t \in Threads : WF_vars(EngineStep(t))

\* ------------------------------------------------------------------------
\* Vocabulary of the properties
\* ------------------------------------------------------------------------

RECURSIVE Pow(_, _)
Pow(b, e) == IF e = 0 THEN 1 ELSE b * Pow(b, e - 1)

RECURSIVE MapProduct(_)
\* the product of prime^exponent over a factor map
MapProduct(f) ==
  IF DOMAIN f = {} THEN 1
  ELSE LET q == CHOOSE q \in DOMAIN f : TRUE
       IN Pow(q, f[q]) * MapProduct([r \in (DOMAIN f) \ {q} |-> f[r]])

Range(s) == {s[i] : i \in 1..Len(s)}

IsPrime(q) == q >= 2 /\ \A d \in 2..(q - 1) : q % d # 0

\* a factor_trial call that returned Some(factors)
FactorTrialReturned ==
  inp.op = "factor_trial" /\ out.status = "done" /\ out.ret = "Some"

\* the primes of the window: cache indices below num_primes
WindowPrimes == {vec_at(cache, i) : i \in 0..(inp.num_primes - 1)}

\* C1 (as claimed): whenever factor_trial(n, num_primes) returns a
\* factorization, the product of prime^exponent over the returned map times
\* the value left in n equals the original n.
C1_RoundTrip ==
  FactorTrialReturned => MapProduct(out.factors) * out.n = inp.n

\* C2 (as claimed): after factor_trial returns, the value left in n is
\* divisible by none of the first num_primes primes.
C2_WindowComplete ==
  FactorTrialReturned =>
    \A q \in WindowPrimes : ~divisible_by(out.n, q)

\* C3 (as claimed): apart from 2, factor_trial records no prime whose cache
\* index is >= num_primes, and a prime factor of n outside the window is
\* left in the cofactor.
C3_BoundedWindow ==
  FactorTrialReturned =>
    /\ \A q \in DOMAIN out.factors : q = 2 \/ q \in WindowPrimes
    /\ \A q \in 3..inp.n :
         (IsPrime(q) /\ divisible_by(inp.n, q) /\ q \notin WindowPrimes)
           => divisible_by(out.n, q)

\* C4: every entry (p -> e) returned by factor_trial has e >= 1, p^e
\* divides the original n and p^(e+1) does not.
C4_ExactExponents ==
  FactorTrialReturned =>
    \A q \in DOMAIN out.factors :
      /\ out.factors[q] >= 1
      /\ divisible_by(inp.n, Pow(q, out.factors[q]))
      /\ ~divisible_by(inp.n, Pow(q, out.factors[q] + 1))

\* C4 witness: a many-limb n whose odd prime of multiplicity >= 5 went
\* through the three unrolled divisions and the power extractor
C4_Witness ==
  /\ FactorTrialReturned
  /\ limb_count(inp.n) > 1
  /\ \E q \in DOMAIN out.factors : q # 2 /\ out.factors[q] >= 5

\* C5: for x > 1 and num_primes <= 3512, every prime of cache index
\* idx < num_primes that divides x has its leaf group idx / group_size let
\* through by should_check_group at the level m factor_trial_tree chose.
C5_TreeSound ==
  (/\ inp.op = "factor_trial_tree" /\ out.status = "done" /\ inp.n > 1
   /\ inp.num_primes <= TREE_PRIMES) =>
    \A idx \in 0..(inp.num_primes - 1) :
      divisible_by(inp.n, vec_at(cache, idx)) =>
        /\ (idx \div GROUP_SIZE) \in Range(out.groups)
        /\ should_check_group(inp.n, tree, idx \div GROUP_SIZE, out.m)

\* C5 witness: a query below the top level of the tree that pruned a group
\* and kept the last group, which holds a prime dividing x
C5_Witness ==
  /\ inp.op = "factor_trial_tree" /\ out.status = "done" /\ inp.n > 1
  /\ out.m >= 1
  /\ out.m < FACTOR_TREE_LEVELS - 1
  /\ 0 \notin Range(out.groups)
  /\ \E idx \in GROUP_SIZE..(inp.num_primes - 1) :
       /\ divisible_by(inp.n, vec_at(cache, idx))
       /\ (idx \div GROUP_SIZE) \in Range(out.groups)

\* C6: remove_power_ascending(n, p) returns e with p^e | n and p^(e+1) not
\* dividing n, and leaves n / p^e; it returns 0 and leaves n unchanged when
\* p does not divide n.
C6_PowerExtraction ==
  (inp.op = "remove_power_ascending" /\ out.status = "done") =>
    /\ divisible_by(inp.n, Pow(inp.p, out.exp))
    /\ ~divisible_by(inp.n, Pow(inp.p, out.exp + 1))
    /\ out.n * Pow(inp.p, out.exp) = inp.n
    /\ (~divisible_by(inp.n, inp.p) => (out.exp = 0 /\ out.n = inp.n))

\* C6 witness: an exponent that needs both phases (5 = 1 + 2 + 2), with a
\* cofactor left
C6_Witness ==
  /\ inp.op = "remove_power_ascending" /\ out.status = "done"
  /\ out.exp = 5
  /\ out.n > inp.p

\* the primes up to MaxCount^2, which bounds the MaxCount-th prime
SmallPrimes == {q \in 2..(MaxCount * MaxCount) : IsPrime(q)}

\* a thread whose ensure_primes_computed(count) has just returned, to the
\* caller or into FactorTrialTree::initialize
EnsureReturned(t) == pc[t] \in {"e_done", "i_first"}

\* C7: under any interleaving of concurrent ensure_primes_computed calls,
\* when a call ensure_primes_computed(count) returns, the cache holds at
\* least count primes.
C7_EnsureHolds ==
  \A t \in Threads : EnsureReturned(t) => Len(cache) >= loc[t].count

\* C7 witness: a call that found the cache short under the read guard and
\* long enough under the write guard (another thread grew it in between),
\* while another call that extended has returned too
C7_Witness ==
  \E t, u \in Threads :
    /\ pc[t] = "e_done" /\ loc[t].via = "recheck"
    /\ loc[t].count > Len(SEED_PRIMES)
    /\ pc[u] = "e_done" /\ loc[u].via = "extend"

\* C8: across every step the cache length never decreases and an entry,
\* once present at index i, never changes (so a read of cache[i], which is
\* what get_nth_prime_using_cache(i) returns, gives the same value before
\* and after any extension).
C8_CacheMonotone ==
  [][/\ Len(cache') >= Len(cache)
     /\ \A i \in 1..Len(cache) : cache'[i] = cache[i]]_vars

\* C8 witness: the cache was extended twice (to 11 by one call, then
\* further by another)
C8_Witness ==
  /\ Len(cache) > Len(SEED_PRIMES) + 1
  /\ \E t \in Threads :
       /\ pc[t] = "e_done" /\ loc[t].via = "extend"
       /\ loc[t].count = Len(SEED_PRIMES) + 1

\* C9: in every reachable state the cache is strictly increasing and its
\* entry i is exactly the (i+1)-th prime; and every prime up to the square
\* root of any candidate the next extension tests (the numbers up to the
\* next prime) is cached already.
C9_CacheIsPrimes ==
  /\ \A i \in 1..(Len(cache) - 1) : cache[i] < cache[i + 1]
  /\ \A i \in 1..Len(cache) :
       /\ cache[i] \in SmallPrimes
       /\ Cardinality({q \in SmallPrimes : q <= cache[i]}) = i
  /\ LET last == cache[Len(cache)]
         next == CHOOSE q \in SmallPrimes :
                   q > last /\ \A r \in SmallPrimes : r > last => q <= r
     IN \A q \in SmallPrimes : q * q <= next => q <= last

\* C9 witness: the seed extended by at least two primes, past the
\* composites 33 and 35 that lie between them
C9_Witness ==
  /\ Len(cache) >= Len(SEED_PRIMES) + 2
  /\ cache[Len(cache)] > 35

\* the tree built from the first TREE_PRIMES primes
BuiltTree == build_tree(new_tree, SEED_PRIMES)

\* C10: under any interleaving of concurrent first callers of
\* get_trial_tree, the initializer runs exactly once; every caller, first
\* or later, gets that same fully built tree; and once it is set no step
\* changes it.
C10_TreeBuiltOnce ==
  /\ [](/\ builds <= 1
        /\ (once # "uninit") => builds = 1
        /\ \A t \in Threads :
             pc[t] = "g_done" =>
               /\ once = "done"
               /\ builds = 1
               /\ loc[t].seen = tree
               /\ tree = BuiltTree)
  /\ [][once = "done" => (once' = "done" /\ tree' = tree)]_vars

\* C10 witness: two callers hold the tree at once, the one that built it
\* and one that arrived later
C10_Witness ==
  \E t, u \in Threads :
    /\ t # u
    /\ pc[t] = "g_done" /\ pc[u] = "g_done"
    /\ loc[t].seen = BuiltTree /\ loc[u].seen = BuiltTree

\* a returned call of one of the four operations that reject n = 0
ZeroCallDone ==
  /\ inp.op \in {"factor_trial", "factor_trial_range", "remove_power",
                 "factor_trial_tree"}
  /\ out.status = "done"
  /\ inp.n = 0

C13_CapacityChecked ==
  (/\ inp.op \in {"factor_trial", "factor_trial_tree"}
   /\ out.status = "done"
   /\ inp.num_primes > TREE_PRIMES) =>
    out.ret # "Some"

\* a returned call of factor_trial_range of trial_div.rs
SignedRangeDone ==
  inp.op = "trial_div_factor_trial_range" /\ out.status = "done"

\* the factor map without the entry that carries the sign
Unsigned(f) == [q \in (DOMAIN f) \ {-1} |-> f[q]]

\* C15 (as claimed): for a negative n the sign is reported as negative, the
\* factor map and the cofactor are those of |n| and the cofactor is
\* positive; and n = -6 with 10 primes gives {2:1, 3:1} and cofactor 1.
C15_SignHandling ==
  (SignedRangeDone /\ inp.n < 0) =>
    LET r == trial_div_factor_trial_range(-inp.n, inp.start, inp.num_primes)
    IN /\ -1 \in DOMAIN out.factors
       /\ Unsigned(out.factors) = r.factors
       /\ out.n = r.n
       /\ out.n > 0
       /\ (inp.n = -6 /\ inp.start = 0 /\ inp.num_primes = 10) =>
            /\ Unsigned(out.factors) = [q \in {2, 3} |-> 1]
            /\ out.n = 1

\* C16 (as claimed): is_prime_using_cache(2, cache) is true for every
\* cache that is a prefix of the primes.
C16_TwoIsPrime ==
  (/\ inp.op = "is_prime_using_cache" /\ out.status = "done"
   /\ inp.n = 2) =>
    out.ret = TRUE

\* the prime of cache index i (0-based), counted among the small primes
NthPrime(i) ==
  CHOOSE q \in SmallPrimes : Cardinality({r \in SmallPrimes : r < q}) = i

Abs(n) == IF n < 0 THEN -n ELSE n

\* the indices of [start, stop) whose prime divides n, the sign ignored
Hits == {i \in inp.start..(inp.stop - 1) : Abs(inp.n) % NthPrime(i) = 0}

\* C18: factor_trial(n, start, stop) of trial_div.rs returns Some(i) for
\* the smallest index i in [start, stop) whose prime divides n, the sign of
\* n ignored, and None when there is none; None when start >= stop,
\* Some(start) when n = 0 and start < stop, None when n = 1.
C18_FirstFactor ==
  (inp.op = "trial_div_factor_trial" /\ out.status = "done") =>
    /\ inp.start >= inp.stop => out.ret = "None"
    /\ (inp.n = 0 /\ inp.start < inp.stop) =>
         (out.ret = "Some" /\ out.index = inp.start)
    /\ inp.n = 1 => out.ret = "None"
    /\ Hits = {} => out.ret = "None"
    /\ Hits # {} =>
         /\ out.ret = "Some"
         /\ out.index \in Hits
         /\ \A j \in Hits : out.index <= j

\* C18 witness: a negative n whose first prime in the range lies past the
\* seed, found after the search skipped index 0 and grew the cache
C18_Witness ==
  /\ inp.op = "trial_div_factor_trial" /\ out.status = "done"
  /\ inp.n < 0 /\ inp.start > 0
  /\ out.ret = "Some" /\ out.index >= Len(SEED_PRIMES)
  /\ Len(cache) > Len(SEED_PRIMES)

\* C19: for x > 1 and num_primes <= 3512, factor_trial_tree(x, num_primes)
\* returns, ascending and without duplicates, exactly the cache indices
\* i < num_primes whose prime divides x (so the list for 7 is [3] and the
\* list for 8 starts with 0); for x = 1 it returns the empty list.
C19_ExactIndices ==
  (/\ inp.op = "factor_trial_tree" /\ out.status = "done"
   /\ inp.num_primes <= TREE_PRIMES) =>
    /\ inp.n = 1 => (out.ret = "Some" /\ out.found = <<>>)
    /\ inp.n > 1 =>
         /\ out.ret = "Some"
         /\ \A k \in 1..(Len(out.found) - 1) : out.found[k] < out.found[k + 1]
         /\ Range(out.found) =
              {i \in 0..(inp.num_primes - 1) :
                 divisible_by(inp.n, vec_at(cache, i))}
    /\ (inp.n = 7 /\ inp.num_primes = TREE_PRIMES) => out.found = <<3>>
    /\ (inp.n = 8 /\ inp.num_primes = TREE_PRIMES) => out.found[1] = 0

\* C19 witness: a bound that ends inside a leaf group, with two primes
\* found and a prime divisor of x at the first index outside the bound
C19_Witness ==
  /\ inp.op = "factor_trial_tree" /\ out.status = "done"
  /\ inp.num_primes < TREE_PRIMES
  /\ inp.num_primes % GROUP_SIZE = 1
  /\ Len(out.found) >= 2
  /\ divisible_by(inp.n, vec_at(cache, inp.num_primes))

\* C20 (as claimed): after FactorTrialTree::initialize every entry of
\* level 0, all FACTOR_TREE_ENTRIES_PER_LEVEL of them, is greater than 0.
C20_LeavesPositive ==
  (once = "done" /\ tree.initialized) =>
    \A e \in 0..(FACTOR_TREE_ENTRIES_PER_LEVEL - 1) :
      get_entry(tree, 0, e) > 0

\* C17: get_nth_prime_using_cache(i) returns the (i+1)-th prime and its
\* indexed read is never past the end of the cache, under any interleaving
\* of the callers between ensure_primes_computed(i + 1) and the read.
C17_NthPrime ==
  \A t \in Threads :
    /\ pc[t] \in {"n_read", "n_index"} => vec_has(cache, loc[t].n)
    /\ pc[t] = "n_done" =>
         (loc[t].ret = "value" /\ loc[t].value = NthPrime(loc[t].n))

\* C17 witness: a call for the first index past the seed has returned its
\* prime after another thread extended the cache in between, past that
\* index
C17_Witness ==
  \E t \in Threads :
    /\ pc[t] = "n_done" /\ loc[t].ret = "value"
    /\ loc[t].n = Len(SEED_PRIMES)
    /\ loc[t].via = "recheck"
    /\ Len(cache) > loc[t].n + 1

\* what the call factor_trial(n, num_primes) gives when it runs alone, from
\* the statics of process start
Alone == factor_trial(inp.n, inp.num_primes, World0)

\* what a finished call of thread t returned and left in n
Outcome(t) == <<out[t].ret, out[t].factors, out[t].n>>

C21_MulMerges ==
  (inp.op = "mul" /\ out.status = "done") =>
    /\ \A k \in MulKeys :
         exponent_of(out.factors, k) =
           exponent_of(inp.a, k) + exponent_of(inp.b, k)
    /\ \A k \in DOMAIN out.factors : out.factors[k] # 0

\* the number of leaf groups the tree is built from
LeafCount == TREE_PRIMES \div GROUP_SIZE

\* the number of populated nodes of level L
NodeCount(L) == (LeafCount + 2 ^ L - 1) \div (2 ^ L)

RECURSIVE PrimeProduct(_, _)
\* the product of the primes of cache indices lo..hi
PrimeProduct(lo, hi) ==
  IF lo > hi THEN 1 ELSE NthPrime(lo) * PrimeProduct(lo + 1, hi)

\* the product of all primes in the leaf groups g..h
GroupsProduct(g, h) == PrimeProduct(g * GROUP_SIZE, (h + 1) * GROUP_SIZE - 1)

Min(a, b) == IF a < b THEN a ELSE b

\* C22: once the tree is constructed, every populated node tree[L][j],
\* j < ceil(leaf_count / 2^L), is the product of all primes in the leaf
\* groups j * 2^L .. min((j+1) * 2^L, leaf_count) - 1; the unpaired last
\* node of an odd-sized level is copied up unchanged; and the top level
\* holds one node, the product of all the primes the tree covers.
C22_NodeInvariant ==
  once = "done" =>
    /\ \A L \in 0..(FACTOR_TREE_LEVELS - 1) :
         \A j \in 0..(NodeCount(L) - 1) :
           /\ has_entry(tree, L, j)
           /\ get_entry(tree, L, j) =
                GroupsProduct(j * 2 ^ L,
                              Min((j + 1) * 2 ^ L, LeafCount) - 1)
    /\ \A L \in 0..(FACTOR_TREE_LEVELS - 2) :
         NodeCount(L) % 2 = 1 =>
           get_entry(tree, L + 1, NodeCount(L + 1) - 1) =
             get_entry(tree, L, NodeCount(L) - 1)
    /\ NodeCount(FACTOR_TREE_LEVELS - 1) = 1
    /\ get_entry(tree, FACTOR_TREE_LEVELS - 1, 0) =
         PrimeProduct(0, TREE_PRIMES - 1)

\* C22 witness: the tree was built by one thread while another grew the
\* cache; its level 0 has an odd number of nodes, the last of which was
\* copied up, and a later caller holds the finished tree
C22_Witness ==
  /\ once = "done"
  /\ Len(cache) > Len(SEED_PRIMES)
  /\ NodeCount(0) % 2 = 1
  /\ get_entry(tree, 1, NodeCount(1) - 1) > 1
  /\ \E t \in Threads : pc[t] = "g_done" /\ loc[t].seen = tree

\* the largest count any thread of SpecGrow asks for
LargestCount ==
  CHOOSE c \in Counts :
    /\ \E t \in Threads : inp.counts[t] = c
    /\ \A t \in Threads : inp.counts[t] <= c

Max(a, b) == IF a > b THEN a ELSE b

\* C23: a thread that takes the write lock and finds the cache already
\* holding at least count primes appends nothing, and an extension ends
\* with the length exactly at its target; the cache length is always the
\* initial length or one of the counts asked for, and when all the
\* concurrent ensure_primes_computed calls have returned it is exactly
\* max(initial length, largest requested count).
C23_DoubleChecked ==
  /\ []((\A t \in Threads : pc[t] = "e_done") =>
          Len(cache) = Max(Len(SEED_PRIMES), LargestCount))
  /\ [](\/ Len(cache) = Len(SEED_PRIMES)
        \/ \E t \in Threads : Len(cache) = inp.counts[t])
  /\ [][\A t \in Threads :
          (pc[t] = "e_recheck" /\ pc'[t] # "e_recheck") =>
            IF Len(cache) >= loc[t].count
            THEN cache' = cache
            ELSE Len(cache') = loc[t].count]_vars

\* C23 witness: all calls have returned; one found the cache long enough
\* only under the write lock, after a call with a larger count had
\* extended the cache past what it asked for
C23_Witness ==
  /\ \A t \in Threads : pc[t] = "e_done"
  /\ \E t, u \in Threads :
       /\ loc[t].via = "recheck" /\ loc[u].via = "extend"
       /\ loc[t].count > Len(SEED_PRIMES)
       /\ loc[u].count > loc[t].count
       /\ Len(cache) = loc[u].count

\* the phase of thread t's factor_trial call: 0 no call, 1 the zero check
\* passed and the powers of two stripped (the tree is being fetched or
\* scanned), 2 the tree scanned, 3 the found primes resolved or the call
\* ended early (the value to return is set)
PhaseOf(t) ==
  IF out[t].status = "none" THEN 0
  ELSE IF out[t].status = "done" THEN 3
  ELSE IF pc[t] \in {"f_cache", "f_resolve"} THEN 2
  ELSE 1

\* n without its powers of two: the largest odd divisor of n
OddPart(n) ==
  CHOOSE m \in 1..n :
    /\ m % 2 = 1 /\ n % m = 0
    /\ \A d \in 1..n : (d % 2 = 1 /\ n % d = 0) => d <= m

\* the cache indices below num_primes whose prime divides x
DividingIndices(x, num_primes) ==
  {i \in 0..(num_primes - 1) : x % NthPrime(i) = 0}

\* C24: every factor_trial call goes through its phases in the one order
\* zero check and powers of two stripped, tree scanned, found primes
\* resolved, return, never back (a call may end early, going straight to
\* its return); the tree scan is left once per call, it runs on the n left
\* after the powers of two were removed, and until it has completed n has
\* lost no odd prime and no odd prime is in the factor map.
C24_PhaseOrder ==
  /\ [][\A t \in Threads :
          \/ PhaseOf(t)' = PhaseOf(t)
          \/ <<PhaseOf(t), PhaseOf(t)'>> \in
               {<<0, 1>>, <<1, 2>>, <<2, 3>>, <<0, 3>>, <<3, 0>>}]_vars
  /\ [][\A t \in Threads :
          (pc[t] = "t_scan" /\ pc'[t] # "t_scan") =>
            (PhaseOf(t) = 1 /\ PhaseOf(t)' = 2)]_vars
  /\ [](\A t \in Threads :
          PhaseOf(t) \in {1, 2} =>
            /\ out[t].n = OddPart(inp.n)
            /\ DOMAIN out[t].factors \subseteq {2}
            /\ PhaseOf(t) = 1 => out[t].found = <<>>
            /\ PhaseOf(t) = 2 =>
                 Range(out[t].found) =
                   DividingIndices(OddPart(inp.n), inp.num_primes))

\* C24 witness: a call of an even many-limb n holds the result of its
\* tree scan, two odd primes, with the power of two recorded and no odd
\* prime divided out yet, while another call has returned already
C24_Witness ==
  \E t, u \in Threads :
    /\ pc[t] = "f_resolve" /\ PhaseOf(t) = 2
    /\ Len(out[t].found) >= 2
    /\ 2 \in DOMAIN out[t].factors
    /\ out[t].n > 1
    /\ PhaseOf(u) = 3 /\ out[u].ret = "Some"

\* C25 (as claimed): for every cache that is a non-empty prefix of the
\* primes, the one-element cache <<2>> included, and every target,
\* extend_cache_to(cache, target) terminates with the cache length equal
\* to max(previous length, target) and all previous entries unchanged.
C25_ExtendTerminates ==
  <>(/\ out.status = "done"
     /\ Len(cache) = Max(inp.len, inp.target_size)
     /\ SubSeq(cache, 1, inp.len) = SubSeq(SEED_PRIMES, 1, inp.len))

\* C26: for every n >= 1, remove_power(n, 2), which counts the trailing
\* zero bits, returns the same exponent and leaves the same n as the
\* generic path run with p = 2 (one checked division by 2, then
\* remove_power_ascending(n, 2)).
C26_TwoAgrees ==
  (/\ inp.op = "remove_power" /\ out.status = "done"
   /\ inp.p = 2 /\ inp.n >= 1) =>
    LET g == remove_power_general(inp.n, 2)
    IN /\ out.ret = "Some" /\ g.ret = "Some"
       /\ out.exp = g.exp
       /\ out.n = g.n

\* C26 witness: an n with five or more trailing zero bits and an odd part
\* above 1, so the generic path needs both phases of the power extractor
C26_Witness ==
  /\ inp.op = "remove_power" /\ out.status = "done"
  /\ inp.p = 2
  /\ out.exp >= 5
  /\ out.n > 1

\* a returned tree query with num_primes within the tree
TreeQueryDone ==
  /\ inp.op = "factor_trial_tree" /\ out.status = "done"
  /\ inp.n > 1
  /\ inp.num_primes <= TREE_PRIMES

\* the number of groups factor_trial_tree checks: ceil(num_primes / group
\* size)
GroupsChecked == (inp.num_primes + GROUP_SIZE - 1) \div GROUP_SIZE

\* C27: for every num_primes within the tree, the level
\* m = bit_count(num_primes) - LIMB_BITS/32 (saturating at 0) is at most
\* the top level, the number of groups checked is at most 2^m, and for
\* every group g checked and every level L <= m the index
\* (g >> L) & (2^(m-L) - 1) that should_check_group uses equals g >> L
\* and designates a populated node that is an ancestor of leaf g.
C27_EffectiveRoot ==
  TreeQueryDone =>
    /\ out.m <= FACTOR_TREE_LEVELS - 1
    /\ GroupsChecked <= 2 ^ out.m
    /\ \A g \in 0..(GroupsChecked - 1) :
         \A L \in 0..out.m :
           LET idx == entry_index(g, L, out.m)
           IN /\ idx = g \div (2 ^ L)
              /\ idx < NodeCount(L)
              /\ has_entry(tree, L, idx)
              /\ get_entry(tree, L, idx) > 0
              /\ idx * 2 ^ L <= g
              /\ g < (idx + 1) * 2 ^ L

\* C27 witness: a query with all the primes of the tree, whose level m is
\* the top level, and whose groups were all let through
C27_Witness ==
  /\ TreeQueryDone
  /\ out.m = FACTOR_TREE_LEVELS - 1
  /\ GroupsChecked = LeafCount
  /\ Len(out.groups) = LeafCount

\* C28: every n.div_exact_assign(d) executed in factor_trial (the first,
\* untested division for each index factor_trial_tree returned, taken
\* after the earlier primes found were divided out, and the two tested
\* ones) and in remove_power_ascending finds the current n divisible by d.
C28_ExactDivisions ==
  (/\ inp.op \in {"factor_trial", "remove_power_ascending"}
   /\ out.status = "done") =>
    out.exact

\* C28 witness: a many-limb n went through the tree, which returned two
\* or more odd primes, one of them of multiplicity 3 or more, so all three
\* divisions of the loop and those of the power extractor were executed
C28_Witness ==
  /\ FactorTrialReturned
  /\ limb_count(inp.n) > 1
  /\ Cardinality((DOMAIN out.factors) \ {2}) >= 2
  /\ \E q \in DOMAIN out.factors : q # 2 /\ out.factors[q] >= 3
  /\ out.exact

\* what factor_trial_range(n, 0, num_primes) gives for the arguments of
\* the factor_trial call under test, from the cache of process start
Linear == factor_trial_range(inp.n, 0, inp.num_primes, World0.cache)

\* C29: for every n >= 1 and every num_primes within the tree,
\* factor_trial(n, num_primes) and factor_trial_range(n, 0, num_primes)
\* return the same factor map and leave the same cofactor in n.
C29_EnginesAgree ==
  (/\ inp.op = "factor_trial" /\ out.status = "done"
   /\ inp.n >= 1 /\ inp.num_primes <= TREE_PRIMES) =>
    /\ out.ret = "Some" /\ Linear.ret = "Some"
    /\ out.factors = Linear.factors
    /\ out.n = Linear.n

\* C29 witness: a many-limb n and a bound below the tree's capacity; two
\* or more odd primes were found, one of them squared, and a cofactor is
\* left
C29_Witness ==
  /\ FactorTrialReturned
  /\ limb_count(inp.n) > 1
  /\ inp.num_primes < TREE_PRIMES
  /\ Cardinality((DOMAIN out.factors) \ {2}) >= 2
  /\ \E q \in DOMAIN out.factors : q # 2 /\ out.factors[q] >= 2
  /\ out.n > 1
  /\ out.factors = Linear.factors

RECURSIVE NoDivisorFrom(_, _)
\* q has no divisor d..sqrt(q)
NoDivisorFrom(q, d) ==
  IF d * d > q THEN TRUE
  ELSE IF q % d = 0 THEN FALSE
  ELSE NoDivisorFrom(q, d + 1)

\* how many primes there are below 2^15
PrimesBelow15Bits ==
  Cardinality({q \in 2..(2 ^ 15 - 1) : NoDivisorFrom(q, 2)})

\* the indices i of for i in (0..3512).step_by(step)
LeafStarts(step) == {i \in 0..(TREE_PRIMES_FULL - 1) : i % step = 0}

\* C30: no leaf product overflows.  On the tree of the model: for every
\* leaf group the highest index read is within the primes the tree covers
\* and within the cache, the product of the group's primes is below the
\* range of the word it is computed in, and the leaf stored is that
\* product.  On the numbers of the source: there are 3512 primes below
\* 2^15, so the first 3512 primes are all below 2^16 and a product of 2
\* (32-bit limbs) or 4 (64-bit limbs) of them is below 2^64; and the
\* highest index read, i + group_size - 1, is at most 3511.
C30_LeafProductsFit ==
  once = "done" =>
    /\ \A j \in 0..(LeafCount - 1) :
         /\ j * GROUP_SIZE + GROUP_SIZE - 1 <= TREE_PRIMES - 1
         /\ vec_has(cache, j * GROUP_SIZE + GROUP_SIZE - 1)
         /\ GroupsProduct(j, j) < WORD_RADIX
         /\ get_entry(tree, 0, j) = GroupsProduct(j, j)
    /\ PrimesBelow15Bits >= TREE_PRIMES_FULL
    /\ \A step \in {2, 4} :
         /\ 16 * step <= WORD_BITS
         /\ \A i \in LeafStarts(step) : i + step - 1 <= TREE_PRIMES_FULL - 1

\* C30 witness: the tree is built and its last leaf, the product of the
\* two largest primes of the tree, needs the top bit of the word
C30_Witness ==
  /\ once = "done"
  /\ get_entry(tree, 0, LeafCount - 1) >= WORD_RADIX \div 2
  /\ get_entry(tree, 0, LeafCount - 1) =
       NthPrime(TREE_PRIMES - 2) * NthPrime(TREE_PRIMES - 1)

=============================================================================
